---- MODULE Spec2Model ----
(***************************************************************************)
(* anjana: t_closeness (src/anjana/anonymity/_t_closeness.py) and the      *)
(* hospital k_anonymity example (src/examples/hospital.py).                *)
(*                                                                         *)
(* A table is a sequence of rows, a row a record of column values.  A      *)
(* hierarchy is a sequence of level columns: hierarchy[l + 1] is level l,  *)
(* and row p of the hierarchy table relates the values of all levels.      *)
(* Metric values and the target t are counted in units of 1/Scale, so      *)
(* t = Scale is t = 1.0; Scale + 1 stands for a value above 1.             *)
(***************************************************************************)
EXTENDS Integers, Sequences, FiniteSets, TLC

VARIABLES
    data,            \* the caller's dataset
    ident,           \* identifier columns
    quasi_ident,     \* the caller's quasi-identifier list
    hierarchies,     \* column -> hierarchy
    k, t, supp_level,
    data_kanon,      \* the table t_closeness works on (line 74)
    supp_records,    \* rows suppressed by the enforcer (line 74)
    gen_level,       \* column -> level (line 74, line 99)
    t_real,          \* last metric value (lines 78, 104); -1 before the first call
    quasi_ident_gen, \* candidate list (line 79)
    qi_gen,          \* attribute selected in the last iteration (line 90)
    oracle,          \* the metric oracle, table -> value, as far as it was asked
    oracle_qi,       \* the quasi-identifier lists the oracle was called with
    pc,              \* position in t_closeness / in the example script
    result,          \* the returned table; <<>> is pd.DataFrame()
    exc,             \* the exception that left the call, "" if none
    kanon,           \* what k_anonymity_inner returned (line 74), kept for reference
    oracle_calls,    \* number of oracle calls made
    iters,           \* refinement iterations that attempted a generalization
    steps            \* successful generalization steps of the refinement loop

vars == <<data, ident, quasi_ident, hierarchies, k, t, supp_level, data_kanon,
          supp_records, gen_level, t_real, quasi_ident_gen, qi_gen, oracle, oracle_qi, pc,
          result, exc, kanon, oracle_calls, iters, steps>>

inputs == <<data, ident, quasi_ident, hierarchies, k, t, supp_level>>

(***************************************************************************)
(* Bounds                                                                  *)
(***************************************************************************)
NumRows == 4
Scale == 1
MaxK == 2

(***************************************************************************)
(* Tables                                                                  *)
(***************************************************************************)
SeqToSet(s) == {s[i] : i \in DOMAIN s}

Unique(tbl, c) == {tbl[i][c] : i \in DOMAIN tbl}

SetColumn(tbl, c, vals) == [i \in DOMAIN tbl |-> [tbl[i] EXCEPT ![c] = vals[i]]]

ColumnValues(tbl, c) == [i \in DOMAIN tbl |-> tbl[i][c]]

\* the rows of tbl whose position is not in gone, in their order
DropRows(tbl, gone) ==
    LET keep == {i \in DOMAIN tbl : i \notin gone}
        nth(j) == CHOOSE i \in keep : Cardinality({x \in keep : x < i}) = j - 1
    IN  [j \in 1..Cardinality(keep) |-> tbl[nth(j)]]

SameClass(tbl, qis, i, j) == \A n \in DOMAIN qis : tbl[i][qis[n]] = tbl[j][qis[n]]

ClassSize(tbl, qis, i) == Cardinality({j \in DOMAIN tbl : SameClass(tbl, qis, i, j)})

Undersized(tbl, qis, kk) == {i \in DOMAIN tbl : ClassSize(tbl, qis, i) < kk}

KAnonymous(tbl, qis, kk) == \A i \in DOMAIN tbl : ClassSize(tbl, qis, i) >= kk

ArgMax_Last(s) == CHOOSE i \in DOMAIN s :
                      /\ \A j \in DOMAIN s : s[j] <= s[i]
                      /\ \A j \in DOMAIN s : j > i => s[j] < s[i]

\* np.argmax: the first position of the greatest element
ArgMax(s) == CHOOSE i \in DOMAIN s :
                 /\ \A j \in DOMAIN s : s[j] <= s[i]
                 /\ \A j \in DOMAIN s : j < i => s[j] < s[i]

\* quasi_ident_gen[np.argmax([len(np.unique(data[qi])) for qi in quasi_ident_gen])]
MostDistinct(tbl, cands) ==
    cands[ArgMax([n \in DOMAIN cands |-> Cardinality(Unique(tbl, cands[n]))])]

\* list.remove(x) on a list without repetitions
Remove(s, x) == SelectSeq(s, LAMBDA y : y # x)

(***************************************************************************)
(* Generalization Applier (utils.apply_hierarchy)                          *)
(***************************************************************************)
MaxLevel(h) == Len(h) - 1

HierarchyExhausted(h, level) == level > MaxLevel(h)

FirstIndex(col, v) == CHOOSE p \in DOMAIN col :
                          /\ col[p] = v
                          /\ \A q \in DOMAIN col : q < p => col[q] # v

\* values are at level - 1; each is replaced by its image at level
apply_hierarchy(values, h, level) ==
    [i \in DOMAIN values |-> h[level + 1][FirstIndex(h[level], values[i])]]

(***************************************************************************)
(* K-Anonymity Enforcer (k_anonymity_inner; its code is not under src/,    *)
(* it is modelled from sections 4.2 and 7 of the specification)            *)
(***************************************************************************)
ZeroLevels(qis) == [c \in SeqToSet(qis) |-> 0]

\* identifier columns are obscured
suppress_identifiers(tbl, ids) ==
    [i \in DOMAIN tbl |->
        [c \in DOMAIN tbl[i] |-> IF c \in SeqToSet(ids) THEN "*" ELSE tbl[i][c]]]

ParameterError(kk, supp) == kk < 1 \/ supp < 0 \/ supp > 100

\* ctx: [qi, k, supp, hier, rows], the fixed arguments of the run
RECURSIVE enforce(_, _, _, _)
enforce(tbl, lvl, cands, ctx) ==
    LET small == Undersized(tbl, ctx.qi, ctx.k) IN
    IF small = {}
    THEN [data |-> tbl, supp_records |-> 0, gen_level |-> lvl, feasible |-> TRUE]
    ELSE IF Cardinality(small) * 100 <= ctx.supp * ctx.rows
    THEN [data |-> DropRows(tbl, small), supp_records |-> Cardinality(small),
          gen_level |-> lvl, feasible |-> TRUE]
    ELSE IF cands = <<>>
    THEN [data |-> <<>>, supp_records |-> 0, gen_level |-> lvl, feasible |-> FALSE]
    ELSE LET q == MostDistinct(tbl, cands) IN
         IF HierarchyExhausted(ctx.hier[q], lvl[q] + 1)
         THEN enforce(tbl, lvl, Remove(cands, q), ctx)
         ELSE enforce(SetColumn(tbl, q,
                          apply_hierarchy(ColumnValues(tbl, q), ctx.hier[q], lvl[q] + 1)),
                      [lvl EXCEPT ![q] = @ + 1], cands, ctx)

k_anonymity_inner(tbl, ids, qis, kk, supp, hier) ==
    enforce(suppress_identifiers(tbl, ids), ZeroLevels(qis), qis,
            [qi |-> qis, k |-> kk, supp |-> supp, hier |-> hier, rows |-> Len(tbl)])

\* before line 74 nothing was returned yet
NoKanon ==
    [data |-> <<>>, supp_records |-> 0, gen_level |-> ZeroLevels(quasi_ident),
     feasible |-> TRUE]

(***************************************************************************)
(* Inputs of t_closeness                                                   *)
(***************************************************************************)
RawQ1 == <<"1", "2", "3">>
RawQ2 == <<"u", "v">>

RowOfType(n, i) ==
    [idx |-> i, name |-> "id",
     q1 |-> RawQ1[((n - 1) \div Len(RawQ2)) + 1],
     q2 |-> RawQ2[((n - 1) % Len(RawQ2)) + 1],
     s |-> IF i = 1 THEN "flu" ELSE "cold"]

\* one table per multiset of rows: the algorithm does not depend on row order
Tables ==
    {[i \in 1..NumRows |-> RowOfType(f[i], i)] :
        f \in {g \in [1..NumRows -> 1..(Len(RawQ1) * Len(RawQ2))] :
                  \A i \in 1..(NumRows - 1) : g[i] <= g[i + 1]}}

\* the caller's quasi-identifier list
QuasiIdent == <<"q1", "q2">>

HierDeep ==
    [q1 |-> << RawQ1, <<"1-2", "1-2", "3">>, <<"*", "*", "*">> >>,
     q2 |-> << RawQ2, <<"*", "*">> >>]

\* q1 has the identity hierarchy only (as gender and city in examples/hospital.py)
HierShallow ==
    [q1 |-> << RawQ1 >>,
     q2 |-> << RawQ2, <<"*", "*">> >>]

HierarchySets == {HierDeep, HierShallow}

SuppLevels == {-1, 0, 40, 101}

Init ==
    /\ data \in Tables
    /\ ident = <<"name">>
    /\ quasi_ident = QuasiIdent
    /\ hierarchies \in HierarchySets
    /\ k \in 0..MaxK
    /\ t \in (-1)..(Scale + 1)
    /\ supp_level \in SuppLevels
    /\ data_kanon = <<>>
    /\ supp_records = 0
    /\ gen_level = ZeroLevels(quasi_ident)
    /\ t_real = -1
    /\ quasi_ident_gen = <<>>
    /\ qi_gen = ""
    /\ oracle = [x \in {} |-> 0]
    /\ oracle_qi = {}
    /\ pc = "start"
    /\ result = <<>>
    /\ exc = ""
    /\ kanon = NoKanon
    /\ oracle_calls = 0
    /\ iters = 0
    /\ steps = 0

(***************************************************************************)
(* The metric oracle (pycanon.anonymity.t_closeness): a function of the    *)
(* table it is given, otherwise arbitrary                                  *)
(***************************************************************************)
MetricValues == 0..(Scale + 1)

OracleAnswers(tbl) == IF tbl \in DOMAIN oracle THEN {oracle[tbl]} ELSE MetricValues

Asked(tbl, v) == [x \in DOMAIN oracle \cup {tbl} |-> IF x = tbl THEN v ELSE oracle[x]]

(***************************************************************************)
(* t_closeness                                                             *)
(***************************************************************************)
Raise(e) ==
    /\ pc' = "raised"
    /\ exc' = e

Return(tbl) ==
    /\ pc' = "done"
    /\ result' = tbl

MetricQI_Candidates(orig, cands) == cands

\* lines 78 and 104: the second argument of pycanon.anonymity.t_closeness is
\* quasi_ident; cands is the list that stands for quasi_ident_gen at the call
MetricQI(orig, cands) == orig

InvalidT_Exclusive(tt) == tt <= 0 \/ tt >= Scale

\* line 71: if t < 0 or t > 1
InvalidT(tt) == tt < 0 \/ tt > Scale

MeetsTarget_Loose(v, tt) == v <= tt + 1

\* lines 81 and 105: if t_real <= t
MeetsTarget(v, tt) == v <= tt

\* line 85: while t_real > t
Exceeds(v, tt) == v > tt

\* lines 71-72
CheckT ==
    /\ pc = "start"
    /\ IF InvalidT(t)
       THEN Raise("ValueError: invalid t") /\ UNCHANGED result
       ELSE pc' = "enforce" /\ UNCHANGED <<result, exc>>
    /\ UNCHANGED <<inputs, data_kanon, supp_records, gen_level, t_real,
                   quasi_ident_gen, qi_gen, oracle, oracle_qi, kanon, oracle_calls, iters, steps>>

CallEnforcer_Swallows ==
    /\ pc = "enforce"
    /\ LET r == IF ParameterError(k, supp_level)
                THEN [NoKanon EXCEPT !.data = data]
                ELSE k_anonymity_inner(data, ident, quasi_ident, k, supp_level,
                                       hierarchies)
       IN  /\ data_kanon' = r.data
           /\ supp_records' = r.supp_records
           /\ gen_level' = r.gen_level
           /\ kanon' = r
    /\ pc' = "metric"
    /\ UNCHANGED <<inputs, t_real, quasi_ident_gen, qi_gen, oracle, oracle_qi, result, exc,
                   oracle_calls, iters, steps>>

\* lines 74-76: a parameter error of the enforcer leaves t_closeness
CallEnforcer ==
    /\ pc = "enforce"
    /\ IF ParameterError(k, supp_level)
       THEN /\ Raise("ValueError: invalid k or supp_level")
            /\ UNCHANGED <<data_kanon, supp_records, gen_level, kanon>>
       ELSE LET r == k_anonymity_inner(data, ident, quasi_ident, k, supp_level, hierarchies)
            IN  /\ data_kanon' = r.data
                /\ supp_records' = r.supp_records
                /\ gen_level' = r.gen_level
                /\ kanon' = r
                /\ pc' = "metric"
                /\ exc' = exc
    /\ UNCHANGED <<inputs, t_real, quasi_ident_gen, qi_gen, oracle, oracle_qi, result,
                   oracle_calls, iters, steps>>

\* line 78 on an empty table: the oracle's precondition (a non-empty table) is
\* broken, and pycanon may raise instead of answering
OracleFails ==
    /\ pc = "metric"
    /\ data_kanon = <<>>
    /\ Raise("oracle error on an empty table")
    /\ UNCHANGED <<inputs, data_kanon, supp_records, gen_level, t_real,
                   quasi_ident_gen, qi_gen, oracle, oracle_qi, result, kanon, oracle_calls,
                   iters, steps>>

InitialMetric_ReturnsInput ==
    /\ pc = "metric"
    /\ \E v \in OracleAnswers(data_kanon) :
          /\ t_real' = v
          /\ oracle' = Asked(data_kanon, v)
          /\ IF MeetsTarget(v, t)
             THEN Return(data)
             ELSE pc' = "loop" /\ UNCHANGED result
    /\ oracle_calls' = oracle_calls + 1
    /\ oracle_qi' = oracle_qi \cup {MetricQI(quasi_ident, quasi_ident)}
    /\ quasi_ident_gen' = quasi_ident
    /\ UNCHANGED <<inputs, data_kanon, supp_records, gen_level, qi_gen, exc, kanon,
                   iters, steps>>

\* lines 78-83
InitialMetric ==
    /\ pc = "metric"
    /\ \E v \in OracleAnswers(data_kanon) :
          /\ t_real' = v
          /\ oracle' = Asked(data_kanon, v)
          /\ IF MeetsTarget(v, t)
             THEN Return(data_kanon)
             ELSE pc' = "loop" /\ UNCHANGED result
    /\ oracle_calls' = oracle_calls + 1
    /\ oracle_qi' = oracle_qi \cup {MetricQI(quasi_ident, quasi_ident)}
    /\ quasi_ident_gen' = quasi_ident
    /\ UNCHANGED <<inputs, data_kanon, supp_records, gen_level, qi_gen, exc, kanon,
                   iters, steps>>

\* lines 85-88: the candidate list is empty; line 108 when the loop condition fails
LoopExit ==
    /\ pc = "loop"
    /\ IF Exceeds(t_real, t)
       THEN Len(quasi_ident_gen) = 0 /\ Return(<<>>)
       ELSE Return(data_kanon)
    /\ UNCHANGED <<inputs, data_kanon, supp_records, gen_level, t_real,
                   quasi_ident_gen, qi_gen, oracle, oracle_qi, exc, kanon, oracle_calls,
                   iters, steps>>

\* lines 85-92 on pd.DataFrame(), which has no columns: data_kanon[qi] raises KeyError
SelectOnNoColumns ==
    /\ pc = "loop"
    /\ Exceeds(t_real, t)
    /\ Len(quasi_ident_gen) # 0
    /\ ~kanon.feasible
    /\ Raise("KeyError")
    /\ UNCHANGED <<inputs, data_kanon, supp_records, gen_level, t_real,
                   quasi_ident_gen, qi_gen, oracle, oracle_qi, result, kanon, oracle_calls,
                   iters, steps>>

AssignColumn_FirstRowOnly(tbl, c, vals) ==
    [i \in DOMAIN tbl |-> IF i = 1 THEN [tbl[i] EXCEPT ![c] = vals[i]] ELSE tbl[i]]

AssignColumn_DropsLastRow(tbl, c, vals) ==
    SubSeq(SetColumn(tbl, c, vals), 1, Len(tbl) - 1)

\* line 98: data_kanon[qi_gen] = generalization_qi
AssignColumn(tbl, c, vals) == SetColumn(tbl, c, vals)

NextLevels_Restart(lvl, q) == [lvl EXCEPT ![q] = 1]

NextLevels_NotRecorded(lvl, q) == lvl

\* line 99: gen_level[qi_gen] = gen_level[qi_gen] + 1
NextLevels(lvl, q) == [lvl EXCEPT ![q] = @ + 1]

\* lines 85-92: the loop is entered with candidates left and selects one
Selects(q) ==
    /\ pc = "loop"
    /\ Exceeds(t_real, t)
    /\ Len(quasi_ident_gen) # 0
    /\ kanon.feasible
    /\ q = MostDistinct(data_kanon, quasi_ident_gen)

Generalize_RemovesCandidate ==
    /\ \E q \in SeqToSet(quasi_ident_gen) :
          /\ Selects(q)
          /\ ~HierarchyExhausted(hierarchies[q], gen_level[q] + 1)
          /\ qi_gen' = q
          /\ data_kanon' = AssignColumn(data_kanon, q,
                               apply_hierarchy(ColumnValues(data_kanon, q),
                                               hierarchies[q], gen_level[q] + 1))
          /\ gen_level' = NextLevels(gen_level, q)
          /\ quasi_ident_gen' = Remove(quasi_ident_gen, q)
    /\ iters' = iters + 1
    /\ steps' = steps + 1
    /\ pc' = "recompute"
    /\ UNCHANGED <<inputs, supp_records, t_real, oracle, oracle_qi, result, exc, kanon,
                   oracle_calls>>

\* lines 85-99, apply_hierarchy succeeds
Generalize ==
    /\ \E q \in SeqToSet(quasi_ident_gen) :
          /\ Selects(q)
          /\ ~HierarchyExhausted(hierarchies[q], gen_level[q] + 1)
          /\ qi_gen' = q
          /\ data_kanon' = AssignColumn(data_kanon, q,
                               apply_hierarchy(ColumnValues(data_kanon, q),
                                               hierarchies[q], gen_level[q] + 1))
          /\ gen_level' = NextLevels(gen_level, q)
    /\ iters' = iters + 1
    /\ steps' = steps + 1
    /\ pc' = "recompute"
    /\ UNCHANGED <<inputs, supp_records, t_real, quasi_ident_gen, oracle, oracle_qi, result,
                   exc, kanon, oracle_calls>>

Exhausted_Escapes ==
    /\ \E q \in SeqToSet(quasi_ident_gen) :
          /\ Selects(q)
          /\ HierarchyExhausted(hierarchies[q], gen_level[q] + 1)
          /\ qi_gen' = q
    /\ Raise("ValueError: hierarchy exhausted")
    /\ UNCHANGED <<inputs, data_kanon, supp_records, gen_level, t_real,
                   quasi_ident_gen, oracle, oracle_qi, result, kanon, oracle_calls, iters, steps>>

Exhausted_KeepsCandidate ==
    /\ \E q \in SeqToSet(quasi_ident_gen) :
          /\ Selects(q)
          /\ HierarchyExhausted(hierarchies[q], gen_level[q] + 1)
          /\ qi_gen' = q
    /\ iters' = iters + 1
    /\ pc' = "recompute"
    /\ UNCHANGED <<inputs, data_kanon, supp_records, gen_level, t_real,
                   quasi_ident_gen, oracle, oracle_qi, result, exc, kanon, oracle_calls, steps>>

Exhausted_GivesUp ==
    /\ \E q \in SeqToSet(quasi_ident_gen) :
          /\ Selects(q)
          /\ HierarchyExhausted(hierarchies[q], gen_level[q] + 1)
          /\ qi_gen' = q
          /\ quasi_ident_gen' = <<>>
    /\ iters' = iters + 1
    /\ pc' = "recompute"
    /\ UNCHANGED <<inputs, data_kanon, supp_records, gen_level, t_real, oracle, oracle_qi,
                   result, exc, kanon, oracle_calls, steps>>

\* lines 85-97 and 100-102, apply_hierarchy raises ValueError
Exhausted ==
    /\ \E q \in SeqToSet(quasi_ident_gen) :
          /\ Selects(q)
          /\ HierarchyExhausted(hierarchies[q], gen_level[q] + 1)
          /\ qi_gen' = q
          /\ quasi_ident_gen' = Remove(quasi_ident_gen, q)
    /\ iters' = iters + 1
    /\ pc' = "recompute"
    /\ UNCHANGED <<inputs, data_kanon, supp_records, gen_level, t_real, oracle, oracle_qi,
                   result, exc, kanon, oracle_calls, steps>>

\* lines 104-106
Recompute ==
    /\ pc = "recompute"
    /\ \E v \in OracleAnswers(data_kanon) :
          /\ t_real' = v
          /\ oracle' = Asked(data_kanon, v)
          /\ IF MeetsTarget(v, t)
             THEN Return(data_kanon)
             ELSE pc' = "loop" /\ UNCHANGED result
    /\ oracle_calls' = oracle_calls + 1
    /\ oracle_qi' = oracle_qi \cup {MetricQI(quasi_ident, quasi_ident_gen)}
    /\ UNCHANGED <<inputs, data_kanon, supp_records, gen_level, quasi_ident_gen,
                   qi_gen, exc, kanon, iters, steps>>

Next ==
    \/ CheckT
    \/ CallEnforcer
    \/ OracleFails
    \/ InitialMetric
    \/ LoopExit
    \/ SelectOnNoColumns
    \/ Generalize
    \/ Exhausted
    \/ Recompute

Spec == Init /\ [][Next]_vars

(***************************************************************************)
(* examples/hospital.py: k_anonymity on the 13-row hospital table          *)
(***************************************************************************)
HospitalRow(i, age, gender, city, religion, disease) ==
    [idx |-> i, name |-> "*", age |-> age, gender |-> gender, city |-> city,
     religion |-> religion, disease |-> disease]

\* the output documented in lines 37-50
HospitalOutput ==
    << HospitalRow(0, "[20, 30[", "Female", "Tamil Nadu", "Hindu", "Cancer"),
       HospitalRow(1, "[20, 30[", "Male", "Tamil Nadu", "Hindu", "Cancer"),
       HospitalRow(2, "[20, 30[", "Male", "Tamil Nadu", "Hindu", "Cancer"),
       HospitalRow(3, "[20, 30[", "Male", "Tamil Nadu", "Hindu", "Cancer"),
       HospitalRow(4, "[20, 30[", "Female", "Kerala", "Hindu", "Viral infection"),
       HospitalRow(5, "[20, 30[", "Female", "Tamil Nadu", "Muslim", "TB"),
       HospitalRow(6, "[20, 30[", "Male", "Karnataka", "Parsi", "No illness"),
       HospitalRow(7, "[20, 30[", "Female", "Kerala", "Christian", "Heart-related"),
       HospitalRow(8, "[20, 30[", "Male", "Karnataka", "Buddhist", "TB"),
       HospitalRow(9, "[10, 20[", "Male", "Kerala", "Hindu", "Cancer"),
       HospitalRow(10, "[20, 30[", "Male", "Karnataka", "Hindu", "Heart-related"),
       HospitalRow(11, "[10, 20[", "Male", "Kerala", "Christian", "Heart-related"),
       HospitalRow(12, "[10, 20[", "Male", "Kerala", "Christian", "Viral infection") >>

\* hierarchies/age.csv is not under src/: exact age -> decade bucket, two ages a bucket
HospitalAgeTable ==
    << <<"17", "19", "24", "29">>,
       <<"[10, 20[", "[10, 20[", "[20, 30[", "[20, 30[">> >>

HospitalIdent == <<"name">>
HospitalQuasiIdent == <<"age", "gender", "city">>
HospitalK == 2
HospitalSuppLevel == 0

HospitalHierarchies_AgeIdentity(tbl) ==
    [age |-> << ColumnValues(tbl, "age") >>,
     gender |-> << ColumnValues(tbl, "gender") >>,
     city |-> << ColumnValues(tbl, "city") >>]

\* lines 27-31
HospitalHierarchies(tbl) ==
    [age |-> HospitalAgeTable,
     gender |-> << ColumnValues(tbl, "gender") >>,
     city |-> << ColumnValues(tbl, "city") >>]

\* hospital_extended.csv is not under src/: the tables whose rows are those of the
\* documented output with an exact age of the row's bucket and the name not yet masked
ExactAge(bucket, n) ==
    LET ages == {p \in DOMAIN HospitalAgeTable[2] : HospitalAgeTable[2][p] = bucket}
    IN  HospitalAgeTable[1][CHOOSE p \in ages : Cardinality({q \in ages : q < p}) = n - 1]

HospitalInputs ==
    {[i \in DOMAIN HospitalOutput |->
         [HospitalOutput[i] EXCEPT !.name = "id",
                                   !.age = ExactAge(HospitalOutput[i].age, f[i])]] :
        f \in [DOMAIN HospitalOutput -> {1, 2}]}

InitHospital ==
    /\ data \in HospitalInputs
    \* the documented output is generalized, so the input was not 2-anonymous as read
    /\ ~KAnonymous(data, HospitalQuasiIdent, HospitalK)
    /\ ident = HospitalIdent
    /\ quasi_ident = HospitalQuasiIdent
    /\ hierarchies = HospitalHierarchies(data)
    /\ k = HospitalK
    /\ t = 0
    /\ supp_level = HospitalSuppLevel
    /\ data_kanon = <<>>
    /\ supp_records = 0
    /\ gen_level = ZeroLevels(quasi_ident)
    /\ t_real = -1
    /\ quasi_ident_gen = <<>>
    /\ qi_gen = ""
    /\ oracle = [x \in {} |-> 0]
    /\ oracle_qi = {}
    /\ pc = "k_anonymity"
    /\ result = <<>>
    /\ exc = ""
    /\ kanon = NoKanon
    /\ oracle_calls = 0
    /\ iters = 0
    /\ steps = 0

\* line 34: data_anon = k_anonymity(data, ident, quasi_ident, k, supp_level, hierarchies)
k_anonymity ==
    /\ pc = "k_anonymity"
    /\ IF ParameterError(k, supp_level)
       THEN /\ Raise("ValueError: invalid k or supp_level")
            /\ UNCHANGED <<data_kanon, supp_records, gen_level, kanon, result>>
       ELSE LET r == k_anonymity_inner(data, ident, quasi_ident, k, supp_level, hierarchies)
            IN  /\ data_kanon' = r.data
                /\ supp_records' = r.supp_records
                /\ gen_level' = r.gen_level
                /\ kanon' = r
                /\ Return(r.data)
                /\ exc' = exc
    /\ UNCHANGED <<inputs, t_real, quasi_ident_gen, qi_gen, oracle, oracle_qi, oracle_calls,
                   iters, steps>>

NextHospital == k_anonymity

SpecHospital == InitHospital /\ [][NextHospital]_vars

(***************************************************************************)
(* Vocabulary of the claims                                                *)
(***************************************************************************)
\* t_closeness returned a table with rows
ReturnedTable == pc = "done" /\ result # <<>>

\* positions after k_anonymity_inner returned (line 76)
AfterEnforcer == pc \in {"metric", "loop", "recompute", "done"}

\* positions of the refinement loop (lines 85-106)
InLoop == pc \in {"loop", "recompute"}

Known(tbl) == tbl \in DOMAIN oracle

AllAtMaxLevel == \A q \in SeqToSet(quasi_ident) : gen_level[q] = MaxLevel(hierarchies[q])

RECURSIVE RoomLeft(_, _)
RoomLeft(lvl, qis) ==
    IF qis = <<>> THEN 0
    ELSE (MaxLevel(hierarchies[Head(qis)]) - lvl[Head(qis)]) + RoomLeft(lvl, Tail(qis))

\* sum over the quasi-identifiers of (maximum level - level left by the enforcer),
\* plus the number of quasi-identifiers
IterationBudget == RoomLeft(kanon.gen_level, quasi_ident) + Len(quasi_ident)

NonQIColumns(row) == DOMAIN row \ SeqToSet(quasi_ident)

\* C1: every non-empty table t_closeness returns has an oracle value <= t
C1_ReturnedTableMeetsTarget ==
    ReturnedTable => Known(result) /\ oracle[result] <= t

\* a table returned after two refinement steps, the metric having gone up on the way
C1_Witness ==
    /\ ReturnedTable
    /\ steps >= 2
    /\ \E x \in DOMAIN oracle : oracle[x] > oracle[kanon.data]

\* C2: a k-anonymous enforcer output stays k-anonymous through every refinement
\* step, so every non-empty table returned is k-anonymous
C2_KAnonymityKept ==
    (AfterEnforcer /\ kanon.feasible /\ KAnonymous(kanon.data, quasi_ident, k))
        => /\ KAnonymous(data_kanon, quasi_ident, k)
           /\ ReturnedTable => KAnonymous(result, quasi_ident, k)

\* a table returned for k >= 2 after refinement merged classes of the enforcer's output
C2_Witness ==
    /\ ReturnedTable
    /\ k >= 2
    /\ steps >= 1
    /\ \E i, j \in DOMAIN result :
          /\ SameClass(result, quasi_ident, i, j)
          /\ ~SameClass(kanon.data, quasi_ident, i, j)

\* C3: hierarchy exhaustion never leaves t_closeness as an exception; when all
\* hierarchies are exhausted with the metric still above t the call ends with the
\* empty table, and no generalized table with the metric above t is returned
C3_InfeasibleIsEmpty ==
    /\ exc # "ValueError: hierarchy exhausted"
    /\ (pc \in {"done", "raised"} /\ kanon.feasible /\ AllAtMaxLevel
          /\ Known(data_kanon) /\ oracle[data_kanon] > t)
        => pc = "done" /\ exc = "" /\ result = <<>>
    /\ (ReturnedTable /\ steps > 0) => ~(oracle[result] > t)

\* the enforcer's table had rows, refinement generalized it to the top, the metric
\* stayed above t and the empty table was returned
C3_Witness ==
    /\ pc = "done"
    /\ result = <<>>
    /\ kanon.data # <<>>
    /\ steps >= 1
    /\ AllAtMaxLevel
    /\ oracle[data_kanon] > t

\* C4: t outside [0,1] ends in the parameter error with the enforcer not called,
\* the oracle not asked and nothing generalized or suppressed; t in [0,1], bounds
\* included, never raises the parameter error for t
C4_TValidatedFirst ==
    /\ (t < 0 \/ t > Scale)
        => /\ pc \in {"start", "raised"}
           /\ pc = "raised" => exc = "ValueError: invalid t"
           /\ kanon = NoKanon
           /\ data_kanon = <<>>
           /\ gen_level = ZeroLevels(quasi_ident)
           /\ supp_records = 0
           /\ oracle_calls = 0
           /\ DOMAIN oracle = {}
    /\ (t >= 0 /\ t <= Scale) => exc # "ValueError: invalid t"

\* t is out of range and so is k: the error raised is the one for t
C4_Witness ==
    /\ pc = "raised"
    /\ exc = "ValueError: invalid t"
    /\ t > Scale
    /\ k < 1

\* C5: when the oracle's value for the enforcer's output is <= t, t_closeness ends
\* with that table as its result, no refinement iteration, the levels the enforcer
\* left and one oracle call
C5_AlreadySatisfied ==
    (AfterEnforcer /\ pc # "metric" /\ Known(kanon.data)
       /\ oracle[kanon.data] <= t)
        => /\ pc = "done"
           /\ result = kanon.data
           /\ iters = 0
           /\ steps = 0
           /\ gen_level = kanon.gen_level
           /\ oracle_calls = 1

\* t = 1, a table with rows after suppression, the oracle answers 1
C5_Witness ==
    /\ ReturnedTable
    /\ t = Scale
    /\ k >= 2
    /\ supp_records >= 1
    /\ oracle[result] = Scale
    /\ oracle_calls = 1

\* C6: every iteration uses up one unit of (levels left + candidates left), so the
\* iterations are at most IterationBudget; the loop is never stuck, and it ends with
\* the target met or the candidate list empty
C6_LoopTerminates ==
    /\ (InLoop \/ pc = "done")
        => iters + RoomLeft(gen_level, quasi_ident) + Len(quasi_ident_gen)
               = IterationBudget
    /\ InLoop => ENABLED Next
    /\ (pc = "done" /\ iters > 0)
        => \/ result # <<>> /\ oracle[result] <= t
           \/ result = <<>> /\ quasi_ident_gen = <<>>

\* the loop ran the full budget of iterations, from the raw levels
C6_Witness ==
    /\ pc = "done"
    /\ iters = IterationBudget
    /\ RoomLeft(kanon.gen_level, quasi_ident) >= 3
    /\ kanon.data # <<>>
    /\ result = <<>>

\* C7: in every step after the enforcer returned no level decreases or falls below
\* the level the enforcer left; a successful step raises the selected attribute's
\* level by one and leaves the others, any other step leaves all levels
C7_LevelsMonotonic ==
    [][AfterEnforcer =>
          /\ \A q \in SeqToSet(quasi_ident) :
                gen_level'[q] >= gen_level[q] /\ gen_level'[q] >= kanon.gen_level[q]
          /\ steps' = steps + 1 =>
                \E q \in SeqToSet(quasi_ident) :
                    gen_level' = [gen_level EXCEPT ![q] = gen_level[q] + 1]
          /\ steps' = steps => gen_level' = gen_level]_vars

\* the enforcer left q1 at level 1 and refinement raised q1 and then q2
C7_Witness ==
    /\ AfterEnforcer
    /\ kanon.gen_level["q1"] = 1
    /\ kanon.gen_level["q2"] = 0
    /\ gen_level["q1"] = 2
    /\ gen_level["q2"] = 1

\* C8: after the enforcer the table keeps its rows, in order, with all columns but
\* the quasi-identifiers unchanged and the suppression count unchanged; a returned
\* table has them too and stays within the suppression budget
C8_NoSuppressionInLoop ==
    /\ (AfterEnforcer /\ kanon.feasible)
        => /\ Len(data_kanon) = Len(kanon.data)
           /\ \A i \in DOMAIN data_kanon : \A c \in NonQIColumns(data_kanon[i]) :
                 data_kanon[i][c] = kanon.data[i][c]
           /\ supp_records = kanon.supp_records
    /\ ReturnedTable
        => /\ Len(result) = Len(kanon.data)
           /\ \A i \in DOMAIN result : \A c \in NonQIColumns(result[i]) :
                 result[i][c] = kanon.data[i][c]
           /\ Len(result) + supp_records = Len(data)
           /\ supp_records * 100 <= supp_level * Len(data)

\* the enforcer suppressed a row, refinement generalized, a table was returned
C8_Witness ==
    /\ ReturnedTable
    /\ supp_records >= 1
    /\ steps >= 1

\* C9: with k < 1 or supp_level outside [0,100] the call ends in a parameter error
\* with no table from the enforcer, no masking, generalization or suppression and
\* no oracle call
C9_EnforcerParametersFailFast ==
    (k < 1 \/ supp_level < 0 \/ supp_level > 100)
        => /\ pc \in {"start", "enforce", "raised"}
           /\ pc = "raised" =>
                 exc \in {"ValueError: invalid t", "ValueError: invalid k or supp_level"}
           /\ kanon = NoKanon
           /\ data_kanon = <<>>
           /\ gen_level = ZeroLevels(quasi_ident)
           /\ supp_records = 0
           /\ oracle_calls = 0
           /\ DOMAIN oracle = {}

\* t and k are valid, supp_level is above 100: the enforcer's parameter error
C9_Witness ==
    /\ pc = "raised"
    /\ exc = "ValueError: invalid k or supp_level"
    /\ k >= 1
    /\ supp_level > 100

\* C10: the hospital example returns its 13 rows, none suppressed, every age replaced
\* by its decade bucket, gender and city as read, every class over
\* (age, gender, city) of size >= 2: the table documented in the script
C10_HospitalExample ==
    (pc = "done" /\ quasi_ident = HospitalQuasiIdent)
        => /\ Len(result) = Len(data)
           /\ supp_records = 0
           /\ \A i \in DOMAIN result :
                 /\ result[i].idx = data[i].idx
                 /\ \E p \in DOMAIN HospitalAgeTable[1] :
                       /\ HospitalAgeTable[1][p] = data[i].age
                       /\ HospitalAgeTable[2][p] = result[i].age
                 /\ result[i].gender = data[i].gender
                 /\ result[i].city = data[i].city
           /\ KAnonymous(result, HospitalQuasiIdent, HospitalK)
           /\ result = HospitalOutput

\* the example ran on a table with as many distinct ages as cities: age, first in
\* the list, was generalized, and the 13 rows came back
C10_Witness ==
    /\ pc = "done"
    /\ quasi_ident = HospitalQuasiIdent
    /\ Cardinality(Unique(data, "age")) = Cardinality(Unique(data, "city"))
    /\ gen_level = [age |-> 1, gender |-> 0, city |-> 0]
    /\ Len(result) = 13

DistinctValues(tbl, c) == Cardinality(Unique(tbl, c))

Position(s, x) == CHOOSE n \in DOMAIN s : s[n] = x

\* C11: the attribute an iteration selects is a candidate, no candidate's column has
\* more distinct values, and of the candidates with as many it is the first in the
\* quasi-identifier list
C11_SelectsMostDistinct ==
    [][iters' = iters + 1 =>
          /\ qi_gen' \in SeqToSet(quasi_ident_gen)
          /\ \A c \in SeqToSet(quasi_ident_gen) :
                /\ DistinctValues(data_kanon, c) <= DistinctValues(data_kanon, qi_gen')
                /\ DistinctValues(data_kanon, c) = DistinctValues(data_kanon, qi_gen')
                      => Position(quasi_ident, qi_gen') <= Position(quasi_ident, c)]_vars

\* both columns have two distinct values and q1, first in the list, was selected
\* (and, its hierarchy exhausted, removed)
C11_Witness ==
    /\ pc = "recompute"
    /\ iters = 1
    /\ qi_gen = "q1"
    /\ quasi_ident_gen = <<"q2">>
    /\ DistinctValues(data_kanon, "q1") = 2
    /\ DistinctValues(data_kanon, "q2") = 2

\* C12: an exhaustion step goes on to the next iteration without a metric oracle
\* call, so whenever the loop is at its head or the run has returned, the oracle has
\* been called once for the enforcer's table and once for each successful step
C12_OracleCalledPerSuccessfulStep ==
    (pc \in {"loop", "done"} /\ oracle_calls > 0) => oracle_calls = 1 + steps

Removed == SeqToSet(quasi_ident) \ SeqToSet(quasi_ident_gen)

\* C13: in the loop the candidate set never gains an attribute; it changes only by
\* losing the selected attribute, in a step where generalizing that attribute one
\* level further is hierarchy exhaustion; a removed attribute is not selected again
\* and its level and column stay as they are
C13_CandidatesOnlyShrink ==
    [][InLoop =>
          /\ SeqToSet(quasi_ident_gen') \subseteq SeqToSet(quasi_ident_gen)
          /\ quasi_ident_gen' # quasi_ident_gen =>
                /\ quasi_ident_gen' = Remove(quasi_ident_gen, qi_gen')
                /\ HierarchyExhausted(hierarchies[qi_gen'], gen_level[qi_gen'] + 1)
          /\ iters' = iters + 1 => qi_gen' \notin Removed
          /\ \A q \in Removed :
                /\ gen_level'[q] = gen_level[q]
                /\ ColumnValues(data_kanon', q) = ColumnValues(data_kanon, q)]_vars

\* q1 was removed on exhaustion and the loop went on to generalize q2
C13_Witness ==
    /\ pc = "recompute"
    /\ quasi_ident_gen = <<"q2">>
    /\ qi_gen = "q2"
    /\ steps > 0
    /\ gen_level["q2"] > kanon.gen_level["q2"]

\* the image, at the recorded level, of the raw value the row had in data
ImageOfRaw(row, q) ==
    hierarchies[q][gen_level[q] + 1][FirstIndex(hierarchies[q][1], data[row.idx][q])]

LevelsAgreeWithData ==
    AfterEnforcer =>
        /\ \A i \in DOMAIN data_kanon : \A q \in SeqToSet(quasi_ident) :
              data_kanon[i][q] = ImageOfRaw(data_kanon[i], q)
        /\ \A q \in SeqToSet(quasi_ident) : gen_level[q] >= kanon.gen_level[q]
        /\ iters = 0 => gen_level = kanon.gen_level

\* C14: from the enforcer's return on, every quasi-identifier column holds the
\* hierarchy image of the raw values at exactly the recorded level, and the levels
\* start from the ones the enforcer left; a successful step advances the selected
\* attribute's level by one, together with its column; an exhaustion step changes
\* neither the table nor a level
C14_LevelsAgreeWithData ==
    [][/\ LevelsAgreeWithData'
       /\ steps' = steps + 1 =>
             /\ gen_level' = [gen_level EXCEPT ![qi_gen'] = @ + 1]
             /\ \A q \in SeqToSet(quasi_ident) \ {qi_gen'} :
                   ColumnValues(data_kanon', q) = ColumnValues(data_kanon, q)
       /\ (iters' = iters + 1 /\ steps' = steps) =>
             UNCHANGED <<data_kanon, gen_level>>]_vars

\* the enforcer left q1 at level 1 and the loop took it to level 2
C14_Witness ==
    /\ pc = "recompute"
    /\ kanon.gen_level["q1"] = 1
    /\ gen_level["q1"] = 2
    /\ qi_gen = "q1"
    /\ steps = 1

\* the run ended with the empty result of line 88
LoopGaveUp == pc = "done" /\ result = <<>> /\ iters > 0

\* C15: the loop returns the empty result only with no candidate left, every
\* quasi-identifier at the maximum level of its hierarchy and the oracle's value for
\* that fully generalized table above t; a loop that ends with the fully generalized
\* table at or below t returns a non-empty table
C15_NeverGivesUpEarly ==
    /\ LoopGaveUp =>
          /\ quasi_ident_gen = <<>>
          /\ AllAtMaxLevel
          /\ data_kanon # <<>>
          /\ Known(data_kanon)
          /\ oracle[data_kanon] > t
    /\ (pc = "done" /\ iters > 0 /\ AllAtMaxLevel /\ ~(oracle[data_kanon] > t)) =>
          result = data_kanon /\ result # <<>>

\* q1 has the identity hierarchy only; the loop took q2 to its last level, found
\* both hierarchies exhausted and only then returned the empty result
C15_Witness ==
    /\ LoopGaveUp
    /\ hierarchies = HierShallow
    /\ iters = 3
    /\ steps = 1
    /\ gen_level["q2"] = 1
    /\ kanon.gen_level["q2"] = 0

\* the run is over and the enforcer had reported infeasibility with an empty table
EndedAfterInfeasibleEnforcer == pc \in {"done", "raised"} /\ ~kanon.feasible

\* C16: the oracle is never asked about the empty table, and a run whose enforcer
\* returned the empty table ends by returning the empty result, with no oracle call
\* and no exception
C16_OracleNeverSeesEmptyTable ==
    /\ ~Known(<<>>)
    /\ EndedAfterInfeasibleEnforcer =>
          /\ pc = "done"
          /\ result = <<>>
          /\ oracle_calls = 0

\* C17: every oracle call of the run was made with the caller's whole
\* quasi-identifier list, whatever was removed from the candidate list, and the
\* caller's list is at every point, so also at the return, the list that was passed
C17_MetricOverAllQuasiIdentifiers ==
    /\ oracle_qi \subseteq {QuasiIdent}
    /\ oracle_calls > 0 => oracle_qi = {QuasiIdent}
    /\ quasi_ident = QuasiIdent

\* an attribute was removed from the candidates, the oracle was called after that
\* and the run returned
C17_Witness ==
    /\ pc = "done"
    /\ Removed # {}
    /\ oracle_calls > 1
    /\ oracle_qi = {QuasiIdent}
    /\ quasi_ident = QuasiIdent

====
